---- MODULE Spec2Model ----
(***************************************************************************)
(* Product CRUD API: the Product schema (models/Product.js) and the        *)
(* request handlers of the product controller, over a document store.      *)
(*                                                                         *)
(* Each awaited persistence call of a handler is one atomic step; requests *)
(* interleave between those steps.  Strings are sequences of one-character *)
(* strings so that trimming and length are computed.  JavaScript values    *)
(* that a request can carry are tagged records (Undef, Str, Num).          *)
(* The persistence library is taken with the behaviour of Mongoose 6 and   *)
(* later: undefined keys are stripped from an update, an update's cast     *)
(* failure is thrown as a CastError, a document's cast failure is reported *)
(* inside the ValidationError.                                             *)
(***************************************************************************)
EXTENDS Integers, Sequences, FiniteSets, TLC

VARIABLES
    store,      \* the products collection: document id -> document or NoDoc
    nextId,     \* number of ObjectIds generated so far
    clock,      \* the wall clock in milliseconds (Date.now())
    req,        \* request slot -> the request in flight and its response
    pristine    \* history: no document was inserted since the last deleteMany

vars == <<store, nextId, clock, req, pristine>>

-----------------------------------------------------------------------------
(* Bounds of the model *)

MaxProducts == 2    \* ObjectIds the model generates
MaxClock == 1       \* milliseconds the clock can reach
MaxReqs == 2        \* requests in flight at once

-----------------------------------------------------------------------------
(* JavaScript values *)

Undef == [t |-> "undefined"]
Str(s) == [t |-> "string", s |-> s]
Num(n) == [t |-> "number", n |-> n]
NaN == [t |-> "NaN"]
Infinity == [t |-> "Infinity"]

IsStr(v) == v.t = "string"
IsNum(v) == v.t = "number"

\* !v of the handlers
Falsy(v) ==
    \/ v.t = "undefined"
    \/ v.t = "NaN"
    \/ IsStr(v) /\ v.s = <<>>
    \/ IsNum(v) /\ v.n = 0

IsSpace(c) == c = " "

RECURSIVE TrimStart(_)
TrimStart(s) ==
    IF s # <<>> /\ IsSpace(Head(s)) THEN TrimStart(Tail(s)) ELSE s

RECURSIVE TrimEnd(_)
TrimEnd(s) ==
    IF s # <<>> /\ IsSpace(s[Len(s)]) THEN TrimEnd(SubSeq(s, 1, Len(s) - 1)) ELSE s

\* String.prototype.trim, the schema's trim setter
Trim(s) == TrimEnd(TrimStart(s))

Digits == <<"0", "1", "2", "3", "4", "5", "6", "7", "8", "9">>

IsDigit(c) == \E i \in 1..Len(Digits) : Digits[i] = c

DigitVal(c) == (CHOOSE i \in 1..Len(Digits) : Digits[i] = c) - 1

RECURSIVE DigitsVal(_)
DigitsVal(s) ==
    IF s = <<>> THEN 0 ELSE DigitsVal(SubSeq(s, 1, Len(s) - 1)) * Len(Digits) + DigitVal(s[Len(s)])

AllDigits(s) == s # <<>> /\ \A i \in 1..Len(s) : IsDigit(s[i])

\* Number(v) on undefined, numbers and strings holding an optionally signed
\* decimal integer, blank text or other text.
ToNumber(v) ==
    IF v.t = "undefined" \/ v.t = "NaN" THEN NaN
    ELSE IF v.t = "Infinity" \/ IsNum(v) THEN v
    ELSE LET s == Trim(v.s) IN
         IF s = <<>> THEN Num(0)
         ELSE IF AllDigits(s) THEN Num(DigitsVal(s))
         ELSE IF Head(s) = "-" /\ AllDigits(Tail(s)) THEN Num(0 - DigitsVal(Tail(s)))
         ELSE NaN

-----------------------------------------------------------------------------
(* The Product schema *)

MinLength == 3      \* name minlength
MaxLength == 100    \* name maxlength
MinPrice == 0       \* price min

Electronics == <<"E", "l", "e", "c", "t", "r", "o", "n", "i", "c", "s">>
Clothing == <<"C", "l", "o", "t", "h", "i", "n", "g">>
Food == <<"F", "o", "o", "d">>
Books == <<"B", "o", "o", "k", "s">>
Toys == <<"T", "o", "y", "s">>
Accessories == <<"A", "c", "c", "e", "s", "s", "o", "r", "i", "e", "s">>
Stationery == <<"S", "t", "a", "t", "i", "o", "n", "e", "r", "y">>
Other == <<"O", "t", "h", "e", "r">>

\* enum.values of category
Categories ==
    {Electronics, Clothing, Food, Books, Toys, Accessories, Stationery, Other}

Paths == {"name", "price", "category"}

Null == [t |-> "null"]
CastError == [t |-> "CastError"]

\* SchemaString cast with the trim setter (name, category), on undefined and strings
CastString(v) == IF IsStr(v) THEN Str(Trim(v.s)) ELSE v

\* SchemaNumber cast (price): '' is null, other strings go through Number(),
\* NaN fails the cast
CastNumber(v) ==
    IF IsStr(v)
    THEN IF v.s = <<>> THEN Null
         ELSE IF ToNumber(v) = NaN THEN CastError ELSE ToNumber(v)
    ELSE IF v.t = "NaN" THEN CastError
    ELSE v

CastPath(p, v) == IF p = "price" THEN CastNumber(v) ELSE CastString(v)

\* the three paths of a body, cast by the schema
CastBody(body) == [p \in Paths |-> CastPath(p, body[p])]

NoError == "ok"

\* required validator: null, undefined and the empty string fail
CheckRequired(v) == ~(v.t = "undefined" \/ v.t = "null" \/ (IsStr(v) /\ v.s = <<>>))

\* validators of name in order: required, minlength, maxlength
NameError(v) ==
    IF ~CheckRequired(v) THEN "Product name is required"
    ELSE IF Len(v.s) < MinLength THEN "Product name must be at least 3 characters long"
    ELSE IF Len(v.s) > MaxLength THEN "Product name cannot exceed 100 characters"
    ELSE NoError

\* validators of price in order: required, min, the custom validator
PriceError(v) ==
    IF v = CastError THEN "Cast to Number failed"
    ELSE IF ~CheckRequired(v) THEN "Product price is required"
    ELSE IF IsNum(v) /\ v.n < MinPrice THEN "Price cannot be negative"
    ELSE IF IsNum(v) /\ ~(v.n >= 0) THEN "Price must be a positive number"
    ELSE NoError

\* validators of category in order: required, enum
CategoryError(v) ==
    IF ~CheckRequired(v) THEN "Product category is required"
    ELSE IF v.s \notin Categories THEN "{VALUE} is not a valid category"
    ELSE NoError

PathError(p, v) ==
    CASE p = "name" -> NameError(v)
      [] p = "price" -> PriceError(v)
      [] p = "category" -> CategoryError(v)

\* error.errors of the ValidationError over the paths validated: one message a path
ValidationErrors(cast, paths) ==
    {PathError(p, cast[p]) : p \in paths} \ {NoError}

\* document validation of Product.create: every path of the schema
DocumentErrors(body) == ValidationErrors(CastBody(body), Paths)

\* the keys an update sets: undefined keys are stripped
UpdatePaths(body) == {p \in Paths : body[p].t # "undefined"}

UpdateValidatorsOff(body) == {}

\* update validators (runValidators: true): the paths the update sets
UpdateErrors(body) == ValidationErrors(CastBody(body), UpdatePaths(body))

\* casting the update throws the first cast failure as a CastError
UpdateCastFails(body) == \E p \in UpdatePaths(body) : CastBody(body)[p] = CastError

-----------------------------------------------------------------------------
(* The collection and the persistence calls *)

NoDoc == [t |-> "null"]

\* req.params.id: a well-formed ObjectId, or text that does not cast to one
Oid(n) == [wf |-> TRUE, n |-> n]
BadId == [wf |-> FALSE, n |-> 0]

\* the ids of the documents in the collection
Existing == {i \in DOMAIN store : store[i] # NoDoc}

\* Product.findById on a well-formed id
FindById(id) == IF id.n \in DOMAIN store THEN store[id.n] ELSE NoDoc

\* the value stored for a cast value: the characters of a string; a price is
\* stored as the number or the null it was cast to
Stored(v) == IF IsStr(v) THEN v.s ELSE v

\* Product.create: the document inserted, timestamps: true
NewDocument(n, cast, now) ==
    [id |-> n, name |-> Stored(cast["name"]), price |-> Stored(cast["price"]),
     category |-> Stored(cast["category"]), createdAt |-> now, updatedAt |-> now, v |-> 0]

ApplyUpdateKeepsTime(doc, body, now) ==
    LET cast == CastBody(body) IN
    [doc EXCEPT !.name = IF "name" \in UpdatePaths(body) THEN Stored(cast["name"]) ELSE @,
                !.price = IF "price" \in UpdatePaths(body) THEN Stored(cast["price"]) ELSE @,
                !.category = IF "category" \in UpdatePaths(body) THEN Stored(cast["category"]) ELSE @]

\* $set of the update's keys and of updatedAt; _id, createdAt and __v stay
ApplyUpdate(doc, body, now) ==
    LET cast == CastBody(body) IN
    [doc EXCEPT !.name = IF "name" \in UpdatePaths(body) THEN Stored(cast["name"]) ELSE @,
                !.price = IF "price" \in UpdatePaths(body) THEN Stored(cast["price"]) ELSE @,
                !.category = IF "category" \in UpdatePaths(body) THEN Stored(cast["category"]) ELSE @,
                !.updatedAt = now]

-----------------------------------------------------------------------------
(* Requests and responses *)

Reqs == 1..MaxReqs

NoBody == [p \in Paths |-> Undef]
NoQuery == [t |-> "none"]
NoResp == [status |-> 0]

Idle ==
    [op |-> "idle", pc |-> "idle", id |-> BadId, body |-> NoBody, query |-> NoQuery,
     doc |-> NoDoc, before |-> NoDoc, products |-> <<>>, clean |-> FALSE, resp |-> NoResp]

\* a request of kind op at its first step
Request(op, id, body) == [Idle EXCEPT !.op = op, !.id = id, !.body = body]

Free(r) == req[r].pc = "idle"

Done(rq, resp) == [rq EXCEPT !.pc = "done", !.resp = resp]

MissingFields ==
    [status |-> 400, message |-> "Please provide all required fields: name, price, and category"]
ValidationFailed(errors) ==
    [status |-> 400, message |-> "Validation Error", errors |-> errors]
NotFound == [status |-> 404, message |-> "Product not found with ID"]
ServerError(error) == [status |-> 500, message |-> "Server Error", error |-> error]
InvalidIdUnhandled == ServerError("CastError")
\* the answer to a CastError of kind ObjectId
InvalidId == [status |-> 404, message |-> "Invalid product ID"]
Created(doc) == [status |-> 201, message |-> "Product created successfully", data |-> doc]
Found(doc) == [status |-> 200, data |-> doc]
Updated(doc) == [status |-> 200, message |-> "Product updated successfully", data |-> doc]
Deleted(doc) == [status |-> 200, message |-> "Product deleted successfully", data |-> doc]
DeletedAll(n) == [status |-> 200, message |-> "Successfully deleted products", deletedCount |-> n]

TypeOK ==
    /\ nextId \in 0..MaxProducts
    /\ clock \in 0..MaxClock
    /\ DOMAIN store = 1..MaxProducts
    /\ DOMAIN req = Reqs
    /\ pristine \in BOOLEAN

Init ==
    /\ store = [i \in 1..MaxProducts |-> NoDoc]
    /\ nextId = 0
    /\ clock = 0
    /\ req = [r \in Reqs |-> Idle]
    /\ pristine = TRUE

\* time passes
Tick ==
    /\ clock < MaxClock
    /\ clock' = clock + 1
    /\ UNCHANGED <<store, nextId, req, pristine>>

\* res.status(..).json(..) has been sent: the request is over
Reply(r) ==
    /\ req[r].pc = "done"
    /\ req' = [req EXCEPT ![r] = Idle]
    /\ UNCHANGED <<store, nextId, clock, pristine>>

-----------------------------------------------------------------------------
(* The handlers *)

\* the handler's own check: !name || !price || !category
RequiredPresent(body) ==
    ~(Falsy(body["name"]) \/ Falsy(body["price"]) \/ Falsy(body["category"]))

\* POST /api/products
CreateProduct(r, body) ==
    /\ Free(r)
    /\ LET rq == Request("create", BadId, body) IN
       IF ~RequiredPresent(body)
       THEN /\ req' = [req EXCEPT ![r] = Done(rq, MissingFields)]
            /\ UNCHANGED <<store, nextId, clock, pristine>>
       ELSE IF DocumentErrors(body) # {}
       THEN /\ req' = [req EXCEPT ![r] = Done(rq, ValidationFailed(DocumentErrors(body)))]
            /\ UNCHANGED <<store, nextId, clock, pristine>>
       ELSE /\ nextId < MaxProducts
            /\ LET doc == NewDocument(nextId + 1, CastBody(body), clock) IN
               /\ store' = [store EXCEPT ![nextId + 1] = doc]
               /\ req' = [req EXCEPT ![r] = Done([rq EXCEPT !.id = Oid(nextId + 1)], Created(doc))]
            /\ nextId' = nextId + 1
            /\ pristine' = FALSE
            /\ UNCHANGED clock

\* GET /api/products/:id
GetProductById(r, id) ==
    /\ Free(r)
    /\ LET rq == Request("get", id, NoBody) IN
       req' = [req EXCEPT ![r] =
                 IF ~id.wf THEN Done(rq, InvalidId)
                 ELSE IF FindById(id) = NoDoc THEN Done(rq, NotFound)
                 ELSE Done(rq, Found(FindById(id)))]
    /\ UNCHANGED <<store, nextId, clock, pristine>>

\* PUT /api/products/:id, up to the answer of findById
UpdateFind(r, id, body) ==
    /\ Free(r)
    /\ LET rq == Request("update", id, body) IN
       req' = [req EXCEPT ![r] =
                 IF ~id.wf THEN Done(rq, InvalidId)
                 ELSE IF FindById(id) = NoDoc THEN Done(rq, NotFound)
                 ELSE [rq EXCEPT !.pc = "write", !.doc = FindById(id)]]
    /\ UNCHANGED <<store, nextId, clock, pristine>>

\* PUT /api/products/:id, findByIdAndUpdate and the response
UpdateWrite(r) ==
    /\ req[r].op = "update"
    /\ req[r].pc = "write"
    /\ LET rq == req[r]
           old == FindById(rq.id)
       IN  IF UpdateCastFails(rq.body)
           THEN /\ req' = [req EXCEPT ![r] = Done(rq, ServerError("CastError"))]
                /\ UNCHANGED store
           ELSE IF UpdateErrors(rq.body) # {}
           THEN /\ req' = [req EXCEPT ![r] = Done(rq, ValidationFailed(UpdateErrors(rq.body)))]
                /\ UNCHANGED store
           ELSE IF old = NoDoc
           THEN /\ req' = [req EXCEPT ![r] = Done(rq, Updated(NoDoc))]
                /\ UNCHANGED store
           ELSE LET new == ApplyUpdate(old, rq.body, clock) IN
                /\ store' = [store EXCEPT ![rq.id.n] = new]
                /\ req' = [req EXCEPT ![r] = Done([rq EXCEPT !.before = old], Updated(new))]
    /\ UNCHANGED <<nextId, clock, pristine>>

\* DELETE /api/products/:id, up to the answer of findById
DeleteFind(r, id) ==
    /\ Free(r)
    /\ LET rq == Request("delete", id, NoBody) IN
       req' = [req EXCEPT ![r] =
                 IF ~id.wf THEN Done(rq, InvalidId)
                 ELSE IF FindById(id) = NoDoc THEN Done(rq, NotFound)
                 ELSE [rq EXCEPT !.pc = "remove", !.doc = FindById(id)]]
    /\ UNCHANGED <<store, nextId, clock, pristine>>

\* DELETE /api/products/:id, findByIdAndDelete and the response
DeleteRemove(r) ==
    /\ req[r].op = "delete"
    /\ req[r].pc = "remove"
    /\ LET rq == req[r] IN
       /\ store' = [store EXCEPT ![rq.id.n] = NoDoc]
       /\ req' = [req EXCEPT ![r] = Done([rq EXCEPT !.before = FindById(rq.id)], Deleted(rq.doc))]
    /\ UNCHANGED <<nextId, clock, pristine>>

DeleteManyKeepsOne ==
    [i \in DOMAIN store |->
        IF Existing # {} /\ i = CHOOSE j \in Existing : TRUE THEN store[i] ELSE NoDoc]

\* the collection after Product.deleteMany({})
DeleteMany == [i \in DOMAIN store |-> NoDoc]

\* DELETE /api/products
DeleteAllProducts(r) ==
    /\ Free(r)
    /\ store' = DeleteMany
    /\ req' = [req EXCEPT ![r] =
                 Done(Request("deleteAll", BadId, NoBody),
                      DeletedAll(Cardinality({i \in Existing : DeleteMany[i] = NoDoc})))]
    /\ pristine' = TRUE
    /\ UNCHANGED <<nextId, clock>>

-----------------------------------------------------------------------------
(* The list endpoint: filter, sort and page window *)

DefaultPage == 1
DefaultLimit == 10

PriceField == <<"p", "r", "i", "c", "e">>
CreatedAtField == <<"c", "r", "e", "a", "t", "e", "d", "A", "t">>
UpdatedAtField == <<"u", "p", "d", "a", "t", "e", "d", "A", "t">>

\* s.split(sep) for a one-character separator
RECURSIVE Split(_, _)
Split(s, sep) ==
    IF \A i \in 1..Len(s) : s[i] # sep THEN <<s>>
    ELSE LET k == CHOOSE i \in 1..Len(s) : s[i] = sep /\ \A j \in 1..(i - 1) : s[j] # sep
         IN  <<SubSeq(s, 1, k - 1)>> \o Split(SubSeq(s, k + 1, Len(s)), sep)

\* parts.join(sep)
RECURSIVE Join(_, _)
Join(parts, sep) ==
    IF Len(parts) = 0 THEN <<>>
    ELSE IF Len(parts) = 1 THEN parts[1]
    ELSE parts[1] \o <<sep>> \o Join(Tail(parts), sep)

\* the sort string of the handler: sort.split(',').join(' '), or '-createdAt'
SortOption(q) ==
    IF ~Falsy(q.sort) THEN Join(Split(q.sort.s, ","), " ") ELSE <<"-">> \o CreatedAtField

\* Query.sort on a string: the fields between blanks, a leading '-' is descending
SortKeys(option) ==
    LET words == SelectSeq(Split(option, " "), LAMBDA w : w # <<>>) IN
    [i \in 1..Len(words) |->
        IF Head(words[i]) = "-"
        THEN [field |-> Tail(words[i]), dir |-> -1]
        ELSE [field |-> words[i], dir |-> 1]]

\* the value a document is ordered by, for the numeric fields
FieldValue(doc, field) ==
    CASE field = PriceField -> doc.price.n
      [] field = CreatedAtField -> doc.createdAt
      [] field = UpdatedAtField -> doc.updatedAt

\* the composite order, applied left to right: -1 a before b, 1 after, 0 a tie
RECURSIVE Compare(_, _, _)
Compare(a, b, keys) ==
    IF keys = <<>> THEN 0
    ELSE LET x == FieldValue(a, Head(keys).field)
             y == FieldValue(b, Head(keys).field)
         IN  IF x = y THEN Compare(a, b, Tail(keys))
             ELSE IF x < y THEN 0 - Head(keys).dir ELSE Head(keys).dir

\* the filter object of the handler: category, and price.$gte / price.$lte
PriceLow(q) == IF ~Falsy(q.minPrice) THEN ToNumber(q.minPrice) ELSE Undef
PriceHigh(q) == IF ~Falsy(q.maxPrice) THEN ToNumber(q.maxPrice) ELSE Undef

\* casting the filter fails on a bound that is not a number
FilterCastFails(q) == PriceLow(q) = NaN \/ PriceHigh(q) = NaN

MatchesIgnoringMax(doc, q) ==
    /\ Falsy(q.category) \/ doc.category = q.category.s
    /\ PriceLow(q) = Undef \/ doc.price.n >= PriceLow(q).n

\* a document satisfies the filter
Matches(doc, q) ==
    /\ Falsy(q.category) \/ doc.category = q.category.s
    /\ PriceLow(q) = Undef \/ doc.price.n >= PriceLow(q).n
    /\ PriceHigh(q) = Undef \/ doc.price.n <= PriceHigh(q).n

Matching(q) == {i \in Existing : Matches(store[i], q)}

\* page and limit with their defaults, through Number()
PageOf(q) == IF q.page.t = "undefined" THEN Num(DefaultPage) ELSE ToNumber(q.page)
LimitOf(q) == IF q.limit.t = "undefined" THEN Num(DefaultLimit) ELSE ToNumber(q.limit)

SkipFromPage(q) == PageOf(q).n * LimitOf(q).n

\* const skip = (Number(page) - 1) * Number(limit)
Skip(q) == (PageOf(q).n - 1) * LimitOf(q).n

\* the orderings of the matching documents the sort allows (ties in any order)
Orderings(q) ==
    LET ids == Matching(q)
        n == Cardinality(ids)
        keys == SortKeys(SortOption(q))
    IN  {o \in [1..n -> ids] :
            /\ \A i, j \in 1..n : i # j => o[i] # o[j]
            /\ \A i, j \in 1..n : i < j => Compare(store[o[i]], store[o[j]], keys) <= 0}

\* .limit(n).skip(k) on an ordering: limit 0 is no limit, a negative limit its size
Window(o, skip, limit) ==
    LET size == IF limit < 0 THEN 0 - limit ELSE limit
        last == IF limit = 0 \/ skip + size > Len(o) THEN Len(o) ELSE skip + size
    IN  [i \in 1..(IF last > skip THEN last - skip ELSE 0) |-> store[o[skip + i]]]

\* Math.ceil(total / limit)
TotalPages(total, limit) ==
    IF limit = 0 THEN (IF total = 0 THEN NaN ELSE Infinity)
    ELSE IF limit > 0 THEN Num((total + limit - 1) \div limit)
    ELSE Num(0 - (total \div (0 - limit)))

Listed(q, products, total) ==
    [status |-> 200, count |-> Len(products), total |-> total, page |-> PageOf(q),
     totalPages |-> TotalPages(total, LimitOf(q).n), data |-> products]

\* GET /api/products, up to the answer of find; the server refuses a page or a
\* limit that is not a number and a negative skip
ListFind(r, q) ==
    /\ Free(r)
    /\ LET rq == [Idle EXCEPT !.op = "list", !.query = q] IN
       IF FilterCastFails(q)
       THEN req' = [req EXCEPT ![r] = Done(rq, ServerError("CastError"))]
       ELSE IF ~IsNum(PageOf(q)) \/ ~IsNum(LimitOf(q))
       THEN req' = [req EXCEPT ![r] = Done(rq, ServerError("MongoServerError"))]
       ELSE IF Skip(q) < 0
       THEN req' = [req EXCEPT ![r] = Done(rq, ServerError("MongoServerError"))]
       ELSE \E o \in Orderings(q) :
               req' = [req EXCEPT ![r] =
                         [rq EXCEPT !.pc = "count", !.clean = pristine,
                                    !.products = Window(o, Skip(q), LimitOf(q).n)]]
    /\ UNCHANGED <<store, nextId, clock, pristine>>

\* GET /api/products, countDocuments and the response
ListCount(r) ==
    /\ req[r].op = "list"
    /\ req[r].pc = "count"
    /\ req' = [req EXCEPT ![r] =
                 Done([req[r] EXCEPT !.clean = @ /\ pristine],
                      Listed(req[r].query, req[r].products,
                             Cardinality(Matching(req[r].query))))]
    /\ UNCHANGED <<store, nextId, clock, pristine>>

-----------------------------------------------------------------------------
(* Inputs *)

Ab == <<"a", "b">>
Abc == <<"a", "b", "c">>
Blank == <<" ", " ", " ">>
Bogus == <<"B", "o", "g", "u", "s">>
Letters == <<"a", "b", "c">>
Pad(s) == <<" ">> \o s \o <<" ">>
Long(n) == [i \in 1..n |-> "x"]

Body(name, price, category) ==
    [p \in Paths |-> CASE p = "name" -> name [] p = "price" -> price [] p = "category" -> category]

NameInputs ==
    {Undef, Str(<<>>), Str(Blank), Str(Ab), Str(Pad(Ab)), Str(Abc), Str(Pad(Abc)),
     Str(Long(MaxLength)), Str(Pad(Long(MaxLength))), Str(Long(MaxLength + 1))}

PriceInputs == {Undef, Num(-1), Num(0), Num(5), Str(<<"5">>), Str(Letters), Str(<<>>)}

CategoryInputs == {Undef, Str(<<>>), Str(Food), Str(Pad(Food)), Str(Bogus)}

\* bodies that vary one field of a valid body, and bodies with several invalid fields
CreateBodies ==
    {Body(n, Num(5), Str(Food)) : n \in NameInputs}
        \cup {Body(Str(Abc), p, Str(Food)) : p \in PriceInputs}
        \cup {Body(Str(Abc), Num(5), c) : c \in CategoryInputs}
        \cup {Body(Str(Ab), Num(-1), Str(Bogus)), Body(Str(Ab), Str(Letters), Str(Food))}

\* bodies of one field, the empty body, a full body and bodies with several
\* invalid fields
UpdateBodies ==
    {Body(Undef, p, Undef) : p \in PriceInputs}
        \cup {Body(n, Undef, Undef) :
                n \in {Str(<<>>), Str(Ab), Str(Pad(Abc)), Str(Long(MaxLength)),
                       Str(Long(MaxLength + 1))}}
        \cup {Body(Undef, Undef, c) : c \in {Str(Pad(Food)), Str(Bogus)}}
        \cup {Body(Str(Abc), Num(5), Str(Food)), Body(Str(Ab), Num(-1), Str(Bogus)),
              Body(Str(Ab), Str(Letters), Undef)}

Ids == {Oid(n) : n \in 1..(MaxProducts + 1)} \cup {BadId}

\* the bodies of the interleaving runs
RaceCreateBodies == {Body(Str(Abc), Num(5), Str(Food))}
RaceUpdateBodies == {Body(Undef, Num(9), Undef)}
RaceIds == {Oid(n) : n \in 1..MaxProducts}

\* the documents of the listing runs
ListBodies ==
    {Body(Str(Abc), Num(5), Str(Food)), Body(Str(Abc), Num(9), Str(Food)),
     Body(Str(Abc), Num(5), Str(Toys))}

Query(category, minPrice, maxPrice, sort, page, limit) ==
    [category |-> category, minPrice |-> minPrice, maxPrice |-> maxPrice,
     sort |-> sort, page |-> page, limit |-> limit]

LowInputs == {Undef, Str(<<>>), Str(<<"0">>), Str(<<"9">>), Str(Letters)}
HighInputs == {Undef, Str(<<"5">>), Str(<<"9">>)}
SortInputs ==
    {Undef, Str(PriceField), Str(<<"-">> \o PriceField \o <<",">> \o CreatedAtField)}
PageInputs == {Undef, Str(<<"0">>), Str(<<"2">>), Str(<<"3">>)}
LimitInputs == {Undef, Str(<<"0">>), Str(<<"1">>), Str(<<"2">>)}

\* queries that vary the filter, and queries that vary the sort and the page window
Queries ==
    {Query(c, lo, hi, Undef, Undef, Str(<<"1">>)) :
        c \in {Undef, Str(Food)}, lo \in LowInputs, hi \in HighInputs}
        \cup {Query(Undef, Undef, Undef, s, pg, l) :
                s \in SortInputs, pg \in PageInputs, l \in LimitInputs}
        \cup {Query(Str(Food), Str(<<"5">>), Undef, Undef, Str(<<"2">>), Str(<<"1">>))}

-----------------------------------------------------------------------------
(* Specifications *)

\* one request at a time, over the full bodies and ids
Next ==
    \/ Tick
    \/ \E b \in CreateBodies : CreateProduct(1, b)
    \/ \E id \in Ids : GetProductById(1, id)
    \/ \E id \in Ids, b \in UpdateBodies : UpdateFind(1, id, b)
    \/ UpdateWrite(1)
    \/ \E id \in Ids : DeleteFind(1, id)
    \/ DeleteRemove(1)
    \/ DeleteAllProducts(1)
    \/ Reply(1)

Spec == Init /\ [][Next]_vars

\* requests interleaving at their persistence calls
NextRace ==
    \/ \E r \in Reqs, b \in RaceCreateBodies : CreateProduct(r, b)
    \/ \E r \in Reqs, id \in RaceIds, b \in RaceUpdateBodies : UpdateFind(r, id, b)
    \/ \E r \in Reqs : UpdateWrite(r)
    \/ \E r \in Reqs, id \in RaceIds : DeleteFind(r, id)
    \/ \E r \in Reqs : DeleteRemove(r)
    \/ \E r \in Reqs : Reply(r)

SpecRace == Init /\ [][NextRace]_vars

\* the list endpoint over a collection that creates and delete-all change
NextList ==
    \/ Tick
    \/ \E b \in ListBodies : CreateProduct(1, b)
    \/ \E q \in Queries : ListFind(1, q)
    \/ ListCount(1)
    \/ DeleteAllProducts(1)
    \/ Reply(1)

SpecList == Init /\ [][NextList]_vars

-----------------------------------------------------------------------------
(* What a request supplies, in the words of the field constraints *)

\* text that reads as a number, and text that does not
Numeric(v) == IsNum(v) \/ (IsStr(v) /\ Trim(v.s) # <<>> /\ IsNum(ToNumber(v)))

NameOK(v) == IsStr(v) /\ Len(Trim(v.s)) >= MinLength /\ Len(Trim(v.s)) <= MaxLength
PriceOK(v) == IsNum(v) /\ v.n >= MinPrice
CategoryOK(v) == IsStr(v) /\ Trim(v.s) \in Categories

\* a valid {name, price, category}
ValidInput(body) == NameOK(body["name"]) /\ PriceOK(body["price"]) /\ CategoryOK(body["category"])

NameViolates(v) == IsStr(v) /\ ~NameOK(v)
PriceViolates(v) == (IsNum(v) /\ v.n < MinPrice) \/ (IsStr(v) /\ ~Numeric(v))
CategoryViolates(v) == IsStr(v) /\ Trim(v.s) \notin Categories

\* a supplied field violates its constraint
Violates(body) ==
    NameViolates(body["name"]) \/ PriceViolates(body["price"]) \/ CategoryViolates(body["category"])

Missing(body) == \E p \in Paths : body[p].t = "undefined"

\* request r ends with this step
Ends(r) == req[r].pc # "done" /\ req'[r].pc = "done"

\* request r of kind op starts with this step
Starts(r, op) == req[r].pc = "idle" /\ req'[r].op = op

-----------------------------------------------------------------------------
(* C1 *)

\* C1: every valid {name, price, category} (price 0 included) is created with
\* status 201 and an assigned id, the record then persisted under that id has
\* the name, price and category of the input and createdAt equal to updatedAt,
\* and a get-by-id of a persisted id responds 200 with the persisted record.
C1_CreateThenGet ==
    \A r \in Reqs :
        /\ (req[r].op = "create" /\ req[r].pc = "done" /\ ValidInput(req[r].body))
            => /\ req[r].resp.status = 201
               /\ req[r].id.wf
               /\ req[r].resp.data.id = req[r].id.n
               /\ LET doc == FindById(req[r].id) IN
                  /\ doc # NoDoc
                  /\ doc.name = req[r].body["name"].s
                  /\ doc.price = req[r].body["price"]
                  /\ doc.category = req[r].body["category"].s
                  /\ doc.createdAt = doc.updatedAt
        /\ (req[r].op = "get" /\ req[r].pc = "done" /\ req[r].id.wf
                /\ req[r].id.n \in Existing)
            => /\ req[r].resp.status = 200
               /\ req[r].resp.data = FindById(req[r].id)

-----------------------------------------------------------------------------
(* C2 *)

DocumentOK(doc) ==
    /\ Len(doc.name) >= MinLength /\ Len(doc.name) <= MaxLength
    /\ IsNum(doc.price) /\ doc.price.n \in Int /\ doc.price.n >= MinPrice
    /\ doc.category \in Categories

\* C2: every persisted Product has a name of 3 to 100 characters, a numeric
\* price >= 0 and a category of the enumerated set, after any sequence of
\* create, update, delete and delete-all requests.
C2_PersistedValid == \A i \in Existing : DocumentOK(store[i])

\* an update of one field has been written over a created document
C2_Witness ==
    \E r \in Reqs :
        /\ req[r].op = "update" /\ req[r].pc = "done" /\ req[r].resp.status = 200
        /\ req[r].before # NoDoc
        /\ store[req[r].id.n] # req[r].before
        /\ Cardinality(Existing) = MaxProducts

-----------------------------------------------------------------------------
(* C3 *)

\* C3: a create with a missing or violating field, and an update of an
\* existing id whose supplied fields violate a constraint, respond 400 with a
\* message, and the collection is the same after the request as before it.
C3_InvalidRejected ==
    [][\A r \in Reqs :
          (\/ Starts(r, "create") /\ Ends(r)
                /\ (Missing(req'[r].body) \/ Violates(req'[r].body))
           \/ req[r].op = "update" /\ req[r].pc = "write" /\ Ends(r)
                /\ Violates(req[r].body))
          => /\ req'[r].resp.status = 400
             /\ "message" \in DOMAIN req'[r].resp
             /\ store' = store]_vars

-----------------------------------------------------------------------------
(* C4 *)

\* the step of request r that answers its findByIdAndUpdate
Writes(r) == req[r].op = "update" /\ req[r].pc = "write" /\ Ends(r)

\* the id of an update that starts does not resolve to a record
Unresolved(id) == ~id.wf \/ id.n \notin Existing

\* a valid body of an update: the fields supplied satisfy their constraints
ValidUpdate(body) ==
    /\ body["name"].t = "undefined" \/ NameOK(body["name"])
    /\ body["price"].t = "undefined" \/ PriceOK(body["price"])
    /\ body["category"].t = "undefined" \/ CategoryOK(body["category"])

\* the fields of doc that body supplies hold the values supplied
HoldsSupplied(doc, body) ==
    /\ IsStr(body["name"]) => doc.name = body["name"].s
    /\ IsNum(body["price"]) => doc.price = body["price"]
    /\ IsStr(body["category"]) => doc.category = body["category"].s

\* the fields of doc that body supplies hold the values supplied, strings trimmed
HoldsSuppliedTrimmed(doc, body) ==
    /\ IsStr(body["name"]) => doc.name = Trim(body["name"].s)
    /\ IsNum(body["price"]) => doc.price = body["price"]
    /\ IsStr(body["category"]) => doc.category = Trim(body["category"].s)

C4_NotFound ==
    \A r \in Reqs :
        (Starts(r, "update") /\ Unresolved(req'[r].id))
            => req'[r].pc = "done" /\ req'[r].resp.status = 404 /\ store' = store

\* C4 as claimed: an update of an unresolved id responds 404; an update of an
\* existing id with a valid body responds 200 with the post-update record, the
\* supplied fields hold the supplied values, updatedAt is strictly greater than
\* before the update, id and createdAt are unchanged, no other record changes.
C4_UpdateAsClaimed ==
    [][/\ C4_NotFound
       /\ \A r \in Reqs :
            (Writes(r) /\ ValidUpdate(req[r].body) /\ req[r].id.n \in Existing)
                => LET old == store[req[r].id.n]
                       new == store'[req[r].id.n]
                   IN  /\ req'[r].resp.status = 200
                       /\ req'[r].resp.data = new
                       /\ HoldsSupplied(new, req[r].body)
                       /\ new.updatedAt > old.updatedAt
                       /\ new.id = old.id /\ new.createdAt = old.createdAt
                       /\ \A j \in DOMAIN store : j # req[r].id.n => store'[j] = store[j]]_vars

\* C4 amended: as claimed, except that the supplied strings are stored trimmed
\* and updatedAt is the time of the write, which is not less than the value
\* before the update and is greater only once the clock has advanced; the
\* fields not supplied keep their values.
C4_UpdateAmended ==
    [][/\ C4_NotFound
       /\ \A r \in Reqs :
            (Writes(r) /\ ValidUpdate(req[r].body) /\ req[r].id.n \in Existing)
                => LET old == store[req[r].id.n]
                       new == store'[req[r].id.n]
                   IN  /\ req'[r].resp.status = 200
                       /\ req'[r].resp.data = new
                       /\ HoldsSuppliedTrimmed(new, req[r].body)
                       /\ req[r].body["name"].t = "undefined" => new.name = old.name
                       /\ req[r].body["price"].t = "undefined" => new.price = old.price
                       /\ req[r].body["category"].t = "undefined" => new.category = old.category
                       /\ new.updatedAt = clock /\ new.updatedAt >= old.updatedAt
                       /\ new.id = old.id /\ new.createdAt = old.createdAt
                       /\ \A j \in DOMAIN store : j # req[r].id.n => store'[j] = store[j]]_vars

\* a valid update has been written after the clock advanced, beside another record
C4_Witness ==
    \E r \in Reqs :
        /\ req[r].op = "update" /\ req[r].pc = "done" /\ req[r].resp.status = 200
        /\ ValidUpdate(req[r].body) /\ IsStr(req[r].body["name"])
        /\ req[r].before # NoDoc
        /\ req[r].resp.data.updatedAt > req[r].before.updatedAt
        /\ req[r].resp.data.name # req[r].before.name
        /\ \E j \in Existing : j # req[r].id.n

-----------------------------------------------------------------------------
(* C5 *)

\* C5: under any interleaving, an update that responds 200 returns the
\* post-write document, a record that was in the collection when the write was
\* applied, and an update whose target does not exist responds 404.
C5_UpdateReturnsDocument ==
    \A r \in Reqs :
        (req[r].op = "update" /\ req[r].pc = "done" /\ req[r].resp.status = 200)
            => req[r].resp.data # NoDoc /\ req[r].before # NoDoc

-----------------------------------------------------------------------------
(* C6 *)

\* C6: a delete-by-id that removes a record responds 200 with the field values
\* the record had at the moment it was removed, and the id resolves to no
\* record afterwards, also when an update of the record runs between the
\* delete's read and its removal.
C6_DeleteReturnsLastState ==
    \A r \in Reqs :
        (/\ req[r].op = "delete" /\ req[r].pc = "done" /\ req[r].resp.status = 200
         /\ req[r].before # NoDoc)
            => /\ req[r].resp.data = req[r].before
               /\ FindById(req[r].id) = NoDoc

-----------------------------------------------------------------------------
(* C7 *)

\* a list request that has been answered 200
Answered(r) == req[r].op = "list" /\ req[r].pc = "done" /\ req[r].resp.status = 200

\* a parameter of the query string is given
Given(v) == IsStr(v) /\ v.s # <<>>

\* price >= minPrice and price <= maxPrice for the bounds given, and the
\* category given
InFilter(doc, q) ==
    /\ Given(q.minPrice) => doc.price.n >= ToNumber(q.minPrice).n
    /\ Given(q.maxPrice) => doc.price.n <= ToNumber(q.maxPrice).n
    /\ Given(q.category) => doc.category = q.category.s

\* C7: a list request returns only records whose price is within the bounds
\* given and whose category is the category given, and its total is the number
\* of all persisted records in the filter, whatever page and limit are.
C7_ListFilter ==
    \A r \in Reqs :
        Answered(r)
            => /\ \A k \in 1..Len(req[r].resp.data) : InFilter(req[r].resp.data[k], req[r].query)
               /\ req[r].resp.total = Cardinality({i \in Existing : InFilter(store[i], req[r].query)})

\* a list with both bounds and a category returned the one record in the
\* filter, another record being outside it
C7_Witness ==
    \E r \in Reqs :
        /\ Answered(r)
        /\ Given(req[r].query.minPrice) /\ Given(req[r].query.maxPrice)
        /\ Given(req[r].query.category)
        /\ req[r].resp.total = 1
        /\ req[r].resp.count = 1
        /\ Cardinality(Existing) > 1

-----------------------------------------------------------------------------
(* C8 *)

\* the integer a page or limit parameter reads as, with its default
ParamValue(v, default) == IF v.t = "undefined" THEN default ELSE ToNumber(v).n

\* the least n with n * d >= t
Ceiling(t, d) == CHOOSE n \in 0..t : n * d >= t /\ (n = 0 \/ (n - 1) * d < t)

\* the sort order of the request
KeysOf(q) == SortKeys(SortOption(q))

\* the records of the filter that the sort places before doc, and not after it
Before(doc, q) == {i \in Matching(q) : Compare(store[i], doc, KeysOf(q)) < 0}
NotAfter(doc, q) == {i \in Matching(q) : Compare(store[i], doc, KeysOf(q)) <= 0}

\* the response is the window of limit records after the first (page - 1) * limit
PageWindow(resp, q, page, limit) ==
    LET skip == (page - 1) * limit
        rest == IF resp.total > skip THEN resp.total - skip ELSE 0
    IN  /\ resp.status = 200
        /\ resp.count = Len(resp.data)
        /\ Len(resp.data) <= limit
        /\ Len(resp.data) = IF rest < limit THEN rest ELSE limit
        /\ \A k \in 1..Len(resp.data) :
             /\ resp.data[k].id \in Matching(q) /\ store[resp.data[k].id] = resp.data[k]
             /\ Cardinality(Before(resp.data[k], q)) <= skip + k - 1
             /\ Cardinality(NotAfter(resp.data[k], q)) >= skip + k
        /\ \A k, l \in 1..Len(resp.data) : k # l => resp.data[k].id # resp.data[l].id
        /\ resp.totalPages = Num(Ceiling(resp.total, limit))

\* a list request whose price bounds read as numbers has been answered
Paged(r) == req[r].op = "list" /\ req[r].pc = "done" /\ ~FilterCastFails(req[r].query)

-----------------------------------------------------------------------------
(* C9 *)

\* C9: get-by-id, update and delete-by-id with a malformed identifier respond
\* 404, as they do for a well-formed identifier that matches no record, and
\* leave the collection unchanged.
C9_MalformedIdNotFound ==
    [][\A r \in Reqs :
          ((Starts(r, "get") \/ Starts(r, "update") \/ Starts(r, "delete"))
                /\ Unresolved(req'[r].id))
            => /\ req'[r].pc = "done"
               /\ req'[r].resp.status = 404
               /\ store' = store]_vars

\* an update with a malformed id has been answered while the collection holds records
C9_Witness ==
    \E r \in Reqs :
        /\ req[r].op = "update" /\ req[r].pc = "done" /\ ~req[r].id.wf
        /\ req[r].resp.status = 404
        /\ req[r].body["price"] = Num(-1)
        /\ Existing # {}

-----------------------------------------------------------------------------
(* C10 *)

\* C10: a delete-all on a collection of N records responds 200 with
\* deletedCount N and leaves no record, and a list request issued after it with
\* no create in between returns zero records and total 0.
C10_DeleteAllEmpties ==
    [][\A r \in Reqs :
          /\ Starts(r, "deleteAll")
                => /\ req'[r].pc = "done"
                   /\ req'[r].resp.status = 200
                   /\ req'[r].resp.deletedCount = Cardinality(Existing)
                   /\ \A i \in DOMAIN store : store'[i] = NoDoc
          /\ (req[r].op = "list" /\ Ends(r) /\ req'[r].clean)
                => /\ req'[r].resp.status = 200
                   /\ req'[r].resp.count = 0
                   /\ req'[r].resp.total = 0
                   /\ req'[r].resp.data = <<>>]_vars

\* a list was answered after a delete-all that removed every record created
C10_Witness ==
    \E r \in Reqs :
        /\ Answered(r) /\ req[r].clean
        /\ pristine
        /\ nextId = MaxProducts

-----------------------------------------------------------------------------
(* C11 *)

\* a delete-by-id request that was answered 200 'Product deleted successfully'
ReportsDeleted(r) ==
    req[r].op = "delete" /\ req[r].pc = "done" /\ req[r].resp = Deleted(req[r].doc)

\* C11: under any interleaving, a record is reported as successfully deleted
\* (200, 'Product deleted successfully') by at most one delete-by-id request,
\* and a delete-by-id request that does not itself remove the record (its
\* findByIdAndDelete found nothing to remove) responds 404.
C11_OneDeleteReports ==
    /\ \A r1, r2 \in Reqs :
          (ReportsDeleted(r1) /\ ReportsDeleted(r2) /\ req[r1].id = req[r2].id)
              => r1 = r2
    /\ \A r \in Reqs :
          (req[r].op = "delete" /\ req[r].pc = "done" /\ req[r].before = NoDoc)
              => req[r].resp.status = 404

====
